---------------------------- MODULE Spec2Model ----------------------------
(***************************************************************************)
(* Model of tradingagents/execution/korea_investment.py: the sliding       *)
(* window RateLimiter and the KoreaInvestmentExecutor brokerage client.    *)
(*                                                                         *)
(* Three specifications share the variables:                               *)
(*   SpecRL   threads calling RateLimiter.wait() / get_status() against a  *)
(*            millisecond-scale clock (one tick = the 50 ms guard margin); *)
(*   Spec     one caller running the executor's public operations against  *)
(*            a brokerage whose answers are chosen nondeterministically,   *)
(*            with an hour-scale clock for the token lifetime;             *)
(*   SpecTok  several threads calling get_access_token() concurrently.     *)
(***************************************************************************)
EXTENDS Integers, Sequences, FiniteSets, TLC

\* ------------------------------------------------------------------ bounds
NThreads == 2          \* threads of the concurrent specifications
MaxCallsBound == 2     \* RateLimiter max_calls is drawn from 1..MaxCallsBound
MaxPeriod == 3         \* RateLimiter period is drawn from 2..MaxPeriod (ticks)
MaxTime == 6           \* the limiter clock stops advancing here
MaxWaitCalls == 3      \* wait() calls started in one behaviour
MaxTicks == 2          \* advances of the hour clock in one behaviour
MaxIterations == 2     \* monitor_positions: max_iterations is drawn from 0..MaxIterations,
                       \* and an unbounded loop is followed for MaxIterations + 1 iterations

\* 0.05 s guard margin of RateLimiter.wait, in limiter ticks (1 tick = 50 ms)
GuardMargin == 1

Threads == 1..NThreads
None == "None"

VARIABLES
    \* ---- RateLimiter (SpecRL)
    max_calls,      \* RateLimiter.max_calls
    period,         \* RateLimiter.period, in ticks
    calls,          \* RateLimiter.calls: the deque of recorded timestamps
    lock,           \* RateLimiter.lock: the set of threads holding it (at most one)
    clock,          \* time.time(), in ticks
    rpc,            \* per thread: position inside wait()
    rnow,           \* per thread: the local `now` of wait()
    wake,           \* per thread: the time at which time.sleep() may return
    recorded,       \* history: every timestamp ever appended to calls
    started         \* number of wait() calls started

VARIABLES
    \* ---- KoreaInvestmentExecutor (Spec, SpecTok)
    mode,             \* self.mode: "paper" or "live"
    base_url,         \* self.base_url
    access_token,     \* self.access_token: None, "" or a token
    token_expires_at, \* self.token_expires_at: <<>> (None) or <<hour>>
    now,              \* datetime.now(), in hours
    ticks,            \* number of clock advances so far
    acquired_at,      \* history: <<>> or <<hour of the last token store>>
    pc,               \* per thread: position in the code
    stack,            \* per thread: call frames [ret, handler], innermost first
    lv,               \* per thread: the local variables of the active calls
    rv,               \* per thread: value returned / exception raised last
    trace             \* per thread: events of the public operation under way

session == <<access_token, token_expires_at, acquired_at>>
config == <<mode, base_url>>
time == <<now, ticks>>
exvars == <<mode, base_url, access_token, token_expires_at, now, ticks, acquired_at,
            pc, stack, lv, rv, trace>>

rlvars == <<max_calls, period, calls, lock, clock, rpc, rnow, wake, recorded, started>>

\* =============================================== KoreaInvestmentExecutor

\* class constants (lines 97-102)
BASE_URL_PAPER == "https://openapivts.koreainvestment.com:29443"
BASE_URL_LIVE == "https://openapi.koreainvestment.com:9443"
RATE_LIMIT_PAPER == 4
RATE_LIMIT_LIVE == 15
\* period=1.0 second handed to RateLimiter by __init__, in 50 ms ticks
PERIOD_TICKS == 20
\* timedelta(hours=23) and timedelta(hours=1) of get_access_token
TOKEN_LIFE_HOURS == 23
RENEW_MARGIN_HOURS == 1
\* min(max_qty, 10) of execute
AUTO_BUY_CEILING == 10
\* ticker.zfill(6)
TICKER_WIDTH == 6

\* ---- values ---------------------------------------------------------
\* Numeric JSON fields arrive as digit strings; a string is a sequence of
\* digits here and Absent stands for a key the response does not carry.
Absent == <<-1>>

\* int("37") : the value of a digit string
RECURSIVE IntOf(_)
IntOf(s) == IF s = <<>> THEN 0 ELSE IntOf(SubSeq(s, 1, Len(s) - 1)) * 10 + s[Len(s)]

\* int(d.get(key, 0))
FieldInt(f) == IF f = Absent THEN 0 ELSE IntOf(f)

\* str(n) for n >= 0
RECURSIVE StrOf(_)
StrOf(n) == IF n < 10 THEN <<n>> ELSE Append(StrOf(n \div 10), n % 10)

\* ticker.zfill(6): zeros on the left up to the width, longer strings unchanged
RECURSIVE Zfill(_, _)
Zfill(s, w) == IF Len(s) >= w THEN s ELSE Zfill(<<0>> \o s, w)

\* decision.upper(): a string is a sequence of one-character strings
UpperChar(c) ==
    CASE c = "a" -> "A" [] c = "b" -> "B" [] c = "d" -> "D" [] c = "e" -> "E"
      [] c = "h" -> "H" [] c = "i" -> "I" [] c = "l" -> "L" [] c = "o" -> "O"
      [] c = "s" -> "S" [] c = "t" -> "T" [] c = "u" -> "U" [] c = "w" -> "W"
      [] c = "y" -> "Y"
      [] OTHER -> c
Upper(s) == [i \in DOMAIN s |-> UpperChar(s[i])]

HOLD == <<"H", "O", "L", "D">>
BUY == <<"B", "U", "Y">>
SELL == <<"S", "E", "L", "L">>

Min(a, b) == IF a <= b THEN a ELSE b

\* Python truthiness of self.access_token / a header value
Truthy(x) == x \notin {None, ""}

\* ---- float -------------------------------------------------------------
\* Python's float is IEEE 754 binary64: a sign, and for a non-zero value a
\* significand of 53 bits (most significant first, man[1] = 1) with the
\* exponent of its leading bit: value = sign * man * 2^(exp - 52).  Every
\* operation rounds its exact result to the nearest such value, ties to even.
MantissaBits == 53

FloatZero == [sign |-> 0, exp |-> 0, man |-> <<>>]

\* the element of a one-element set
TheOne(S) == CHOOSE x \in S : TRUE

\* the binary digits of n >= 1
RECURSIVE BitsOf(_)
BitsOf(n) == IF n < 2 THEN <<n>> ELSE Append(BitsOf(n \div 2), n % 2)

Zeros(k) == [i \in 1..k |-> 0]

\* bits + 1, one bit longer when every bit was 1
IncBits(bits) ==
    TheOne({ IF \A i \in DOMAIN b : b[i] = 1 THEN <<1>> \o Zeros(Len(b))
             ELSE TheOne({ [i \in DOMAIN b |-> IF i < last THEN b[i]
                                               ELSE IF i = last THEN 1 ELSE 0] :
                           last \in {i \in DOMAIN b :
                                        b[i] = 0 /\ \A k \in i + 1..Len(b) : b[k] = 1} }) :
             b \in {bits} })

\* round to nearest, ties to even: `bits` are the leading MantissaBits bits of
\* the exact result, `half` the next bit, `sticky` whether anything follows
RoundNearestEven(sign, exp, bits, half, sticky) ==
    IF half = 1 /\ (sticky \/ bits[Len(bits)] = 1)
    THEN TheOne({ IF Len(up) > Len(bits)
                  THEN [sign |-> sign, exp |-> exp + 1, man |-> SubSeq(up, 1, Len(bits))]
                  ELSE [sign |-> sign, exp |-> exp, man |-> up] : up \in {IncBits(bits)} })
    ELSE [sign |-> sign, exp |-> exp, man |-> bits]

\* float(n) for an integer n: exact, the integers here have far fewer than 53 bits
FloatOfInt(n) ==
    IF n = 0 THEN FloatZero
    ELSE TheOne({ [sign |-> IF n < 0 THEN -1 ELSE 1,
                   exp |-> Len(bits) - 1,
                   man |-> bits \o Zeros(MantissaBits - Len(bits))] :
                  bits \in {BitsOf(IF n < 0 THEN -n ELSE n)} })

\* long division: the next k bits of r / d for 0 <= r < d, and what is left
DivBits(r, d, k) ==
    LET Next[x \in Nat \X Nat \X Nat] ==
            IF x[3] = 0 THEN <<>>
            ELSE IF 2 * x[1] >= x[2]
                 THEN <<1>> \o Next[<<2 * x[1] - x[2], x[2], x[3] - 1>>]
                 ELSE <<0>> \o Next[<<2 * x[1], x[2], x[3] - 1>>]
    IN  Next[<<r, d, k>>]
DivRem(r, d, k) ==
    LET Next[x \in Nat \X Nat \X Nat] ==
            IF x[3] = 0 THEN x[1]
            ELSE IF 2 * x[1] >= x[2]
                 THEN Next[<<2 * x[1] - x[2], x[2], x[3] - 1>>]
                 ELSE Next[<<2 * x[1], x[2], x[3] - 1>>]
    IN  Next[<<r, d, k>>]

\* the e with 2^e <= n / d < 2^(e+1), for n, d >= 1
RECURSIVE ExponentOf(_, _)
ExponentOf(n, d) ==
    IF n >= 2 * d THEN ExponentOf(n, 2 * d) + 1
    ELSE IF n < d THEN ExponentOf(2 * n, d) - 1
    ELSE 0

RECURSIVE Pow2(_)
Pow2(k) == IF k <= 0 THEN 1 ELSE 2 * Pow2(k - 1)

\* ns / ds with ds <= ns < 2 * ds, correctly rounded, times 2^e
DivScaled(sign, e, ns, ds) ==
    TheOne({ RoundNearestEven(sign, e, <<1>> \o DivBits(ns - ds, ds, MantissaBits - 1),
                              IF 2 * r >= ds THEN 1 ELSE 0,
                              (IF 2 * r >= ds THEN 2 * r - ds ELSE 2 * r) # 0) :
             r \in {DivRem(ns - ds, ds, MantissaBits - 1)} })

\* float(n) / float(d) for integers n and d >= 1: n / d correctly rounded
FloatDiv(n, d) ==
    IF n = 0 THEN FloatZero
    ELSE TheOne({ DivScaled(IF n < 0 THEN -1 ELSE 1, e,
                            IF e < 0 THEN (IF n < 0 THEN -n ELSE n) * Pow2(-e)
                            ELSE (IF n < 0 THEN -n ELSE n),
                            IF e > 0 THEN d * Pow2(e) ELSE d) :
                  e \in {ExponentOf(IF n < 0 THEN -n ELSE n, d)} })

\* bits * k + carry for a small integer k
MulBits(bits, k, carry) ==
    LET Next[x \in Seq({0, 1}) \X Nat \X Nat] ==
            IF x[1] = <<>> THEN (IF x[3] = 0 THEN <<>> ELSE BitsOf(x[3]))
            ELSE Append(Next[<<SubSeq(x[1], 1, Len(x[1]) - 1), x[2],
                               (x[1][Len(x[1])] * x[2] + x[3]) \div 2>>],
                        (x[1][Len(x[1])] * x[2] + x[3]) % 2)
    IN  Next[<<bits, k, carry>>]

\* the exact product `prod` (a bit string) rounded to MantissaBits bits
RoundProduct(sign, exp, prod) ==
    RoundNearestEven(sign, exp + Len(prod) - MantissaBits, SubSeq(prod, 1, MantissaBits),
                     IF Len(prod) > MantissaBits THEN prod[MantissaBits + 1] ELSE 0,
                     \E i \in MantissaBits + 2..Len(prod) : prod[i] = 1)

\* x * k for a float x and an integer k >= 1 (k itself is exact as a float)
FloatMulInt(x, k) ==
    TheOne({ IF xv.sign = 0 THEN FloatZero
             ELSE TheOne({ RoundProduct(xv.sign, xv.exp, prod) :
                           prod \in {MulBits(xv.man, k, 0)} }) :
             xv \in {x} })

\* the order of two bit strings of the same length
BitsLess(a, b) ==
    \E i \in DOMAIN a : a[i] < b[i] /\ \A k \in 1..i - 1 : a[k] = b[k]

MagnitudeLess(x, y) ==
    \/ x.exp < y.exp
    \/ x.exp = y.exp /\ BitsLess(x.man, y.man)

\* x < y
FloatLess(x, y) ==
    IF x.sign # y.sign THEN x.sign < y.sign
    ELSE IF x.sign = 1 THEN MagnitudeLess(x, y)
    ELSE IF x.sign = -1 THEN MagnitudeLess(y, x)
    ELSE FALSE
\* x <= y
FloatLeq(x, y) == \A xv \in {x}, yv \in {y} : ~FloatLess(yv, xv)

\* ---- inputs and brokerage answers -----------------------------------
DecisionInputs ==
    { HOLD, <<"H", "o", "l", "d">>, <<"h", "o", "l", "d">>,
      <<"b", "u", "y">>, SELL, <<"W", "A", "I", "T">> }
TickerInputs == { <<5, 9, 3, 0>> }
QuantityInputs == {0, 12, -3}
PriceInputs == {0}

\* a response: kind "ok" is HTTP 200, "http_error" any other status (text is
\* the body), "net_error" is requests raising instead of returning
HttpError ==
    [kind |-> "http_error", text |-> "body", f |-> Absent, s |-> None, rows |-> <<>>,
     out |-> None]
NetError ==
    [kind |-> "net_error", text |-> "refused", f |-> Absent, s |-> None, rows |-> <<>>,
     out |-> None]
Ok(f, str, rows) ==
    [kind |-> "ok", text |-> "json", f |-> f, s |-> str, rows |-> rows, out |-> None]

\* the answer of order-cash: rt_cd, and output.ODNO or msg_cd / msg1
OrderAnswer(rt_cd, odno, msg_cd, msg1) ==
    [Ok(Absent, rt_cd, <<>>) EXCEPT !.out = [ODNO |-> odno, msg_cd |-> msg_cd, msg1 |-> msg1]]

HeldRows ==
    LET item(p, q) == [pdno |-> p, hldg_qty |-> q]
        A == <<0, 0, 5, 9, 3, 0>>
        B == <<0, 0, 0, 6, 6, 0>>
    IN  { <<>>,
          <<item(A, <<5>>)>>,
          <<item(A, <<0>>)>>,
          <<item(B, <<1, 2>>)>>,
          <<item(B, <<7>>), item(A, <<1, 2>>)>>,
          <<item(A, Absent), item(B, <<5>>)>> }

\* balance rows as check_positions reads them: held quantity, average
\* purchase price and current price
PositionRows ==
    LET item(p, n, q, avg, cur) ==
            [pdno |-> p, prdt_name |-> n, hldg_qty |-> q, pchs_avg_pric |-> avg, prpr |-> cur]
        A == item(<<0, 0, 5, 9, 3, 0>>, "A", <<5>>, <<1, 0, 0, 0>>, <<9, 5, 0>>)
        B == item(<<0, 0, 0, 6, 6, 0>>, "B", <<1, 2>>, <<1, 0, 0>>, <<1, 2, 9>>)
        C == item(<<0, 3, 5, 7, 2, 0>>, "C", <<3>>, <<1, 0, 0, 0>>, <<1, 0, 0, 0>>)
        D == item(<<0, 3, 5, 4, 2, 0>>, "D", <<0>>, <<1, 0, 0, 0>>, <<5, 0, 0>>)
        E == item(<<0, 5, 1, 9, 1, 0>>, "E", <<2>>, <<0>>, <<5, 0, 0>>)
        F == item(<<0, 6, 6, 5, 7, 0>>, "F", <<7>>, <<1, 0, 0>>, <<7, 1>>)
        H == item(<<0, 1, 5, 7, 6, 0>>, "H", <<2>>, <<1, 0, 0, 0>>, <<1, 1, 0, 0>>)
    IN  { <<>>, <<A, C, B>>, <<D, E, F>>, <<H>> }

\* stop_loss_pct and take_profit_pct: the defaults, and a wider band
DefaultThresholds == <<-5, 10>>
ThresholdInputs == { DefaultThresholds, <<-29, 29>> }

Responses(ep) ==
    {HttpError, NetError} \cup
    CASE ep = "token" -> { Ok(Absent, "tokA", <<>>), Ok(Absent, None, <<>>) }
      [] ep = "price" -> { Ok(<<7, 0>>, None, <<>>) }
      [] ep = "buyable" -> { Ok(q, None, <<>>) :
                              q \in {Absent, <<0>>, <<3>>, <<1, 0>>, <<3, 7>>} }
      [] ep = "balance" -> { Ok(Absent, None, rows) : rows \in HeldRows }
      [] ep = "hashkey" -> { Ok(Absent, "hash1", <<>>), Ok(Absent, None, <<>>) }
      [] ep = "order" -> { OrderAnswer("0", "0000117057", "APBK0013", "accepted"),
                           OrderAnswer("1", None, "APBK0919", "declined") }

\* ---- events of the operation under way ------------------------------
\* e: "admit" (RateLimiter.wait returned), "req" (HTTP request sent),
\* "resp" (the answer to it),
\* "gat" (get_access_token entered), "gat_ret" (it returned),
\* "place_order" (place_order entered),
\* "callback" (the monitor's callback was called), "print" (a line printed
\* by the monitor)
Event(e, ep, d) == [e |-> e, ep |-> ep, d |-> d]

\* ---- per-thread locals ------------------------------------------------
LV0 ==
    [ ticker |-> <<>>, decision |-> <<>>, quantity |-> 0, price |-> 0,
      current_price |-> 0,
      po_ticker |-> <<>>, po_type |-> "-", po_quantity |-> 0, po_price |-> 0,
      data |-> <<>>, ep |-> "-", req |-> <<>>,
      op |-> "-", decision_in |-> <<>>, quantity_in |-> 0,
      entry |-> <<>>,
      stop_loss_pct |-> 0, take_profit_pct |-> 0, dry_run |-> TRUE,
      positions |-> <<>>, sell_targets |-> <<>>, idx |-> 0, executed_orders |-> <<>>,
      iteration |-> 0, max_iterations |-> 0, auto_execute |-> FALSE, callback |-> None,
      sleeps |-> 0, callback_raised |-> 0, cancel_requested |-> FALSE ]

NoFrame == "-"

ExIdle ==
    /\ access_token = None
    /\ token_expires_at = <<>>
    /\ acquired_at = <<>>
    /\ now = 0
    /\ ticks = 0
    /\ pc = [t \in Threads |-> "idle"]
    /\ stack = [t \in Threads |-> <<>>]
    /\ lv = [t \in Threads |-> LV0]
    /\ rv = [t \in Threads |-> None]
    /\ trace = [t \in Threads |-> <<>>]

\* __init__ (lines 111-138)
ExInit ==
    /\ mode \in {"paper", "live"}
    /\ base_url = IF mode = "paper" THEN BASE_URL_PAPER ELSE BASE_URL_LIVE
    /\ ExIdle

\* ---- control ---------------------------------------------------------
Goto(t, l) ==
    /\ pc' = [pc EXCEPT ![t] = l]
    /\ UNCHANGED <<stack, rv>>

\* a call made at a site whose enclosing try jumps to `handler` on an exception
CallTo(t, target, ret, handler) ==
    /\ pc' = [pc EXCEPT ![t] = target]
    /\ stack' = [stack EXCEPT ![t] = <<[ret |-> ret, handler |-> handler]>> \o @]
    /\ UNCHANGED rv

Return(t, v) ==
    /\ pc' = [pc EXCEPT ![t] = Head(stack[t]).ret]
    /\ stack' = [stack EXCEPT ![t] = Tail(@)]
    /\ rv' = [rv EXCEPT ![t] = v]

\* raise: unwind to the innermost frame whose call site is inside a try;
\* with none, the exception leaves the public operation ("raised")
Raise(t, e) ==
    LET guarded == {i \in 1..Len(stack[t]) : stack[t][i].handler # NoFrame} IN
    /\ rv' = [rv EXCEPT ![t] = e]
    /\ IF guarded = {}
       THEN /\ pc' = [pc EXCEPT ![t] = "raised"]
            /\ stack' = [stack EXCEPT ![t] = <<>>]
       ELSE LET i == CHOOSE j \in guarded : \A k \in guarded : j <= k IN
            /\ pc' = [pc EXCEPT ![t] = stack[t][i].handler]
            /\ stack' = [stack EXCEPT ![t] = SubSeq(@, i + 1, Len(@))]

Exc(kind, text) == [exc |-> kind, text |-> text]

Log(t, ev) == trace' = [trace EXCEPT ![t] = Append(@, ev)]

\* ---- get_access_token (lines 200-227) --------------------------------
\* lines 207-209: the cached token is returned while now < expires - 1h
CachedValidNoMargin ==
    /\ Truthy(access_token)
    /\ token_expires_at # <<>>
    /\ now < token_expires_at[1]
CachedValid ==
    /\ Truthy(access_token)
    /\ token_expires_at # <<>>
    /\ now < token_expires_at[1] - RENEW_MARGIN_HOURS

GatEntered ==
    Event("gat", "-", [time |-> now, tok |-> access_token,
                        exp |-> token_expires_at, acq |-> acquired_at])

\* lines 206-218: return the cached token, or go and request a new one
GatCheck(t) ==
    /\ pc[t] = "gat"
    /\ IF CachedValid
       THEN /\ Return(t, access_token)
            /\ trace' = [trace EXCEPT ![t] =
                   @ \o <<GatEntered, Event("gat_ret", "-", [tok |-> access_token])>>]
            /\ UNCHANGED lv
       ELSE /\ CallTo(t, "api_wait", "gat220", NoFrame)
            /\ Log(t, GatEntered)
            /\ lv' = [lv EXCEPT ![t].ep = "token",
                                ![t].req = [auth |-> "-", tr_id |-> "-", hashkey |-> "-",
                                            url |-> base_url, body |-> <<>>]]
    /\ UNCHANGED <<session, config, time>>
    /\ UNCHANGED rlvars

\* lines 220-227: store token and expiry on 200, raise otherwise

\* line 227: the failure path raises and assigns nothing
GatFailStoresAnyway(t) ==
    /\ access_token' = None
    /\ token_expires_at' = <<now + TOKEN_LIFE_HOURS>>
    /\ UNCHANGED acquired_at
GatFail(t) == UNCHANGED session

GatStore(t) ==
    /\ pc[t] = "gat220"
    /\ IF rv[t].kind = "ok"
       THEN /\ access_token' = rv[t].s
            /\ token_expires_at' = <<now + TOKEN_LIFE_HOURS>>
            /\ acquired_at' = <<now>>
            /\ Return(t, rv[t].s)
            /\ Log(t, Event("gat_ret", "-", [tok |-> rv[t].s]))
       ELSE /\ GatFail(t)
            /\ Raise(t, Exc("token_fail", rv[t].text))
            /\ UNCHANGED trace
    /\ UNCHANGED <<config, time, lv>>
    /\ UNCHANGED rlvars

\* ---- _api_call (lines 152-172) ---------------------------------------
\* a request that goes out without passing the limiter
ApiNoWait(t) ==
    /\ pc[t] = "api_wait"
    /\ Goto(t, "api_http")
    /\ UNCHANGED <<session, config, time, lv, trace>>
    /\ UNCHANGED rlvars

\* line 165: self.rate_limiter.wait() returns once a timestamp is recorded
ApiWait(t) ==
    /\ pc[t] = "api_wait"
    /\ Goto(t, "api_http")
    /\ Log(t, Event("admit", lv[t].ep, <<>>))
    /\ UNCHANGED <<session, config, time, lv>>
    /\ UNCHANGED rlvars

\* lines 167-170: requests.get / requests.post sends the request
ApiHttp(t) ==
    /\ pc[t] = "api_http"
    /\ Goto(t, "api_resp")
    /\ Log(t, Event("req", lv[t].ep, lv[t].req))
    /\ UNCHANGED <<session, config, time, lv>>
    /\ UNCHANGED rlvars

\* what the brokerage may answer to the request under way: the balance rows
\* carry the fields that the operation under way reads
Answers(t) ==
    IF lv[t].ep = "balance" /\ lv[t].op # "execute"
    THEN {HttpError, NetError} \cup { Ok(Absent, None, rows) : rows \in PositionRows }
    ELSE Responses(lv[t].ep)

\* the brokerage answers, or the transport raises
ApiResp(t) ==
    /\ pc[t] = "api_resp"
    /\ \E r \in Answers(t) :
          /\ IF r.kind = "net_error"
             THEN Raise(t, Exc("net_error", r.text))
             ELSE Return(t, r)
          /\ Log(t, Event("resp", lv[t].ep, r))
    /\ UNCHANGED <<session, config, time, lv>>
    /\ UNCHANGED rlvars

Request(auth, tr_id, hashkey, body) ==
    [auth |-> auth, tr_id |-> tr_id, hashkey |-> hashkey, url |-> base_url, body |-> body]

\* ---- get_current_price (lines 229-257) -------------------------------
GetCurrentPriceEnter(t) ==
    /\ pc[t] = "get_current_price"
    /\ CallTo(t, "gat", "gcp241", NoFrame)
    /\ UNCHANGED <<session, config, time, lv, trace>>
    /\ UNCHANGED rlvars

GetCurrentPriceSend(t) ==
    /\ pc[t] = "gcp241"
    /\ lv' = [lv EXCEPT ![t].ep = "price",
                        ![t].req = Request(access_token, "FHKST01010100", "-",
                                           Zfill(lv[t].ticker, TICKER_WIDTH))]
    /\ CallTo(t, "api_wait", "gcp254", NoFrame)
    /\ UNCHANGED <<session, config, time, trace>>
    /\ UNCHANGED rlvars

GetCurrentPriceResult(t) ==
    /\ pc[t] = "gcp254"
    /\ IF rv[t].kind = "ok"
       THEN Return(t, rv[t])
       ELSE Raise(t, Exc("price_fail", rv[t].text))
    /\ UNCHANGED <<session, config, time, lv, trace>>
    /\ UNCHANGED rlvars

\* ---- get_balance (lines 259-293) -------------------------------------
GetBalanceEnter(t) ==
    /\ pc[t] = "get_balance"
    /\ CallTo(t, "gat", "gb268", NoFrame)
    /\ UNCHANGED <<session, config, time, lv, trace>>
    /\ UNCHANGED rlvars

GetBalanceSend(t) ==
    /\ pc[t] = "gb268"
    /\ lv' = [lv EXCEPT ![t].ep = "balance",
                        ![t].req = Request(access_token,
                                           IF mode = "paper" THEN "VTTC8434R" ELSE "TTTC8434R",
                                           "-", <<>>)]
    /\ CallTo(t, "api_wait", "gb290", NoFrame)
    /\ UNCHANGED <<session, config, time, trace>>
    /\ UNCHANGED rlvars

GetBalanceResult(t) ==
    /\ pc[t] = "gb290"
    /\ IF rv[t].kind = "ok"
       THEN Return(t, rv[t])
       ELSE Raise(t, Exc("balance_fail", rv[t].text))
    /\ UNCHANGED <<session, config, time, lv, trace>>
    /\ UNCHANGED rlvars

\* ---- get_buyable_amount (lines 295-328) ------------------------------
GetBuyableEnter(t) ==
    /\ pc[t] = "get_buyable_amount"
    /\ CallTo(t, "gat", "gba308", NoFrame)
    /\ UNCHANGED <<session, config, time, lv, trace>>
    /\ UNCHANGED rlvars

GetBuyableSend(t) ==
    /\ pc[t] = "gba308"
    /\ lv' = [lv EXCEPT ![t].ep = "buyable",
                        ![t].req = Request(access_token,
                                           IF mode = "paper" THEN "VTTC8908R" ELSE "TTTC8908R",
                                           "-", Zfill(lv[t].ticker, TICKER_WIDTH))]
    /\ CallTo(t, "api_wait", "gba325", NoFrame)
    /\ UNCHANGED <<session, config, time, trace>>
    /\ UNCHANGED rlvars

GetBuyableResult(t) ==
    /\ pc[t] = "gba325"
    /\ IF rv[t].kind = "ok"
       THEN Return(t, rv[t])
       ELSE Raise(t, Exc("buyable_fail", rv[t].text))
    /\ UNCHANGED <<session, config, time, lv, trace>>
    /\ UNCHANGED rlvars

\* ---- _get_hashkey (lines 187-198) ------------------------------------
GetHashkeySend(t) ==
    /\ pc[t] = "get_hashkey"
    /\ lv' = [lv EXCEPT ![t].ep = "hashkey",
                        ![t].req = Request("-", "-", "-", lv[t].data)]
    /\ CallTo(t, "api_wait", "ghk196", NoFrame)
    /\ UNCHANGED <<session, config, time, trace>>
    /\ UNCHANGED rlvars

\* 200: response.json().get("HASH", ""); any other status: ""
GetHashkeyResult(t) ==
    /\ pc[t] = "ghk196"
    /\ Return(t, IF rv[t].kind = "ok" /\ rv[t].s # None THEN rv[t].s ELSE "")
    /\ UNCHANGED <<session, config, time, lv, trace>>
    /\ UNCHANGED rlvars

\* ---- place_order (lines 330-400) -------------------------------------
Result(status, error, ticker, decision, quantity, order_no, current_price) ==
    [status |-> status, error |-> error, ticker |-> ticker, decision |-> decision,
     quantity |-> quantity, order_no |-> order_no, current_price |-> current_price]

OrderTrIdPaper(m, order_type) == IF order_type = "buy" THEN "VTTC0802U" ELSE "VTTC0801U"
\* lines 354-357
OrderTrId(m, order_type) ==
    IF m = "paper"
    THEN (IF order_type = "buy" THEN "VTTC0802U" ELSE "VTTC0801U")
    ELSE (IF order_type = "buy" THEN "TTTC0802U" ELSE "TTTC0801U")

\* lines 360-367
OrderData(ticker, quantity, price) ==
    [PDNO |-> Zfill(ticker, TICKER_WIDTH),
     ORD_DVSN |-> IF price = 0 THEN "01" ELSE "00",
     ORD_QTY |-> StrOf(quantity),
     ORD_UNPR |-> StrOf(price)]

PlaceOrderEnter(t) ==
    /\ pc[t] = "place_order"
    /\ CallTo(t, "gat", "po351", NoFrame)
    /\ Log(t, Event("place_order", "-",
                    [ticker |-> lv[t].po_ticker, order_type |-> lv[t].po_type,
                     quantity |-> lv[t].po_quantity, price |-> lv[t].po_price]))
    /\ UNCHANGED <<session, config, time, lv>>
    /\ UNCHANGED rlvars

PlaceOrderHash(t) ==
    /\ pc[t] = "po351"
    /\ lv' = [lv EXCEPT ![t].data =
                  OrderData(lv[t].po_ticker, lv[t].po_quantity, lv[t].po_price)]
    /\ CallTo(t, "get_hashkey", "po371", NoFrame)
    /\ UNCHANGED <<session, config, time, trace>>
    /\ UNCHANGED rlvars

\* lines 371-373: _get_headers adds the hashkey header only when it is non-empty
PlaceOrderSend(t) ==
    /\ pc[t] = "po371"
    /\ lv' = [lv EXCEPT ![t].ep = "order",
                        ![t].req = Request(access_token, OrderTrId(mode, lv[t].po_type),
                                           IF Truthy(rv[t]) THEN rv[t] ELSE "-",
                                           lv[t].data)]
    /\ CallTo(t, "api_wait", "po375", NoFrame)
    /\ UNCHANGED <<session, config, time, trace>>
    /\ UNCHANGED rlvars

\* line 379: if result.get("rt_cd") == "0"
OrderAcceptedAnyCode(result) == TRUE
OrderAccepted(result) == result.s = "0"

\* lines 375-400: success with output.ODNO, or failed with msg_cd and msg1,
\* or failed with the body of a non-200 answer
PlaceOrderResult(t) ==
    /\ pc[t] = "po375"
    /\ Return(t,
          IF rv[t].kind = "ok"
          THEN IF OrderAccepted(rv[t])
               THEN Result("success", <<>>, lv[t].po_ticker, <<>>, lv[t].po_quantity,
                           rv[t].out.ODNO, 0)
               ELSE Result("failed", <<"rejected", rv[t].out.msg_cd, rv[t].out.msg1>>,
                           lv[t].po_ticker, <<>>, 0, "-", 0)
          ELSE Result("failed", <<"http_error", rv[t].text>>, <<>>, <<>>, 0, "-", 0))
    /\ UNCHANGED <<session, config, time, lv, trace>>
    /\ UNCHANGED rlvars

\* ---- execute (lines 402-487) -----------------------------------------
\* line 421: decision = decision.upper()
NormalizeNot(decision) == decision
Normalize(decision) == Upper(decision)

\* line 440: quantity = min(max_qty, 10)
AutoBuyQuantityUnclamped(max_qty) == max_qty
AutoBuyQuantity(max_qty) == Min(max_qty, AUTO_BUY_CEILING)

\* lines 459-462: the held quantity of the first row whose pdno is the ticker
RECURSIVE HeldQuantityNoZfill(_, _, _)
HeldQuantityNoZfill(rows, ticker, quantity) ==
    IF rows = <<>> THEN quantity
    ELSE IF rows[1].pdno = ticker
         THEN FieldInt(rows[1].hldg_qty)
         ELSE HeldQuantityNoZfill(Tail(rows), ticker, quantity)
RECURSIVE HeldQuantityFirstRow(_, _, _)
HeldQuantityFirstRow(rows, ticker, quantity) ==
    IF rows = <<>> THEN quantity ELSE FieldInt(rows[1].hldg_qty)
RECURSIVE HeldQuantity(_, _, _)
HeldQuantity(rows, ticker, quantity) ==
    IF rows = <<>> THEN quantity
    ELSE IF rows[1].pdno = Zfill(ticker, TICKER_WIDTH)
         THEN FieldInt(rows[1].hldg_qty)
         ELSE HeldQuantity(Tail(rows), ticker, quantity)

\* lines 436 and 455: if quantity == 0
AutoResolveAlways(quantity) == TRUE
AutoResolve(quantity) == quantity = 0

\* lines 442 and 464: if quantity > 0
ShouldPlaceAlways(quantity) == quantity >= 0
ShouldPlace(quantity) == quantity > 0

\* lines 421-428
ExecuteEnter(t) ==
    /\ pc[t] = "execute"
    /\ lv' = [lv EXCEPT ![t].decision = Normalize(@)]
    /\ IF Normalize(lv[t].decision) = HOLD
       THEN Return(t, Result("HOLD", <<>>, lv[t].ticker, <<>>, 0, "-", 0))
       ELSE Goto(t, "ex432")
    /\ UNCHANGED <<session, config, time, trace>>
    /\ UNCHANGED rlvars

\* line 432, inside the try
ExecutePrice(t) ==
    /\ pc[t] = "ex432"
    /\ CallTo(t, "get_current_price", "ex433", "ex476")
    /\ UNCHANGED <<session, config, time, lv, trace>>
    /\ UNCHANGED rlvars

\* lines 433-438 and 454-457
ExecuteBranch(t) ==
    /\ pc[t] = "ex433"
    /\ lv' = [lv EXCEPT ![t].current_price = FieldInt(rv[t].f)]
    /\ IF lv[t].decision = BUY
       THEN IF AutoResolve(lv[t].quantity)
            THEN CallTo(t, "get_buyable_amount", "ex439", "ex476")
            ELSE Goto(t, "ex442")
       ELSE IF lv[t].decision = SELL
            THEN IF AutoResolve(lv[t].quantity)
                 THEN CallTo(t, "get_balance", "ex458", "ex476")
                 ELSE Goto(t, "ex464")
            ELSE Goto(t, "ex484")
    /\ UNCHANGED <<session, config, time, trace>>
    /\ UNCHANGED rlvars

\* lines 439-440
ExecuteBuyQuantity(t) ==
    /\ pc[t] = "ex439"
    /\ lv' = [lv EXCEPT ![t].quantity = AutoBuyQuantity(FieldInt(rv[t].f))]
    /\ Goto(t, "ex442")
    /\ UNCHANGED <<session, config, time, trace>>
    /\ UNCHANGED rlvars

\* lines 442-452
ExecuteBuyOrder(t) ==
    /\ pc[t] = "ex442"
    /\ IF ShouldPlace(lv[t].quantity)
       THEN /\ lv' = [lv EXCEPT ![t].po_ticker = lv[t].ticker, ![t].po_type = "buy",
                                ![t].po_quantity = lv[t].quantity,
                                ![t].po_price = lv[t].price]
            /\ CallTo(t, "place_order", "ex444", "ex476")
       ELSE /\ Return(t, Result("failed", <<"no_buyable_quantity">>, lv[t].ticker,
                                <<>>, 0, "-", 0))
            /\ UNCHANGED lv
    /\ UNCHANGED <<session, config, time, trace>>
    /\ UNCHANGED rlvars

\* lines 444-446
ExecuteBuyDone(t) ==
    /\ pc[t] = "ex444"
    /\ Return(t, [rv[t] EXCEPT !.current_price = lv[t].current_price, !.decision = BUY])
    /\ UNCHANGED <<session, config, time, lv, trace>>
    /\ UNCHANGED rlvars

\* lines 458-462
ExecuteSellQuantity(t) ==
    /\ pc[t] = "ex458"
    /\ lv' = [lv EXCEPT ![t].quantity = HeldQuantity(rv[t].rows, lv[t].ticker, @)]
    /\ Goto(t, "ex464")
    /\ UNCHANGED <<session, config, time, trace>>
    /\ UNCHANGED rlvars

\* lines 464-474
ExecuteSellOrder(t) ==
    /\ pc[t] = "ex464"
    /\ IF ShouldPlace(lv[t].quantity)
       THEN /\ lv' = [lv EXCEPT ![t].po_ticker = lv[t].ticker, ![t].po_type = "sell",
                                ![t].po_quantity = lv[t].quantity,
                                ![t].po_price = lv[t].price]
            /\ CallTo(t, "place_order", "ex466", "ex476")
       ELSE /\ Return(t, Result("failed", <<"no_sellable_quantity">>, lv[t].ticker,
                                <<>>, 0, "-", 0))
            /\ UNCHANGED lv
    /\ UNCHANGED <<session, config, time, trace>>
    /\ UNCHANGED rlvars

\* lines 466-468
ExecuteSellDone(t) ==
    /\ pc[t] = "ex466"
    /\ Return(t, [rv[t] EXCEPT !.current_price = lv[t].current_price, !.decision = SELL])
    /\ UNCHANGED <<session, config, time, lv, trace>>
    /\ UNCHANGED rlvars

\* lines 476-482: except Exception as e
ExecuteExcept(t) ==
    /\ pc[t] = "ex476"
    /\ Return(t, Result("failed", <<rv[t].exc, rv[t].text>>, lv[t].ticker,
                        lv[t].decision, 0, "-", 0))
    /\ UNCHANGED <<session, config, time, lv, trace>>
    /\ UNCHANGED rlvars

\* lines 484-487: neither BUY nor SELL
ExecuteUnknown(t) ==
    /\ pc[t] = "ex484"
    /\ Return(t, Result("failed", <<"unknown_decision", lv[t].decision>>, <<>>,
                        <<>>, 0, "-", 0))
    /\ UNCHANGED <<session, config, time, lv, trace>>
    /\ UNCHANGED rlvars

\* ---- get_portfolio_summary (lines 489-530) ---------------------------
GetPortfolioSummaryEnter(t) ==
    /\ pc[t] = "get_portfolio_summary"
    /\ CallTo(t, "get_balance", "gps495", "gps529")
    /\ UNCHANGED <<session, config, time, lv, trace>>
    /\ UNCHANGED rlvars

\* lines 495-527: the table lists the rows whose safe_int(hldg_qty) > 0
GetPortfolioSummaryFormat(t) ==
    /\ pc[t] = "gps495"
    /\ Return(t, [summary |-> SelectSeq(rv[t].rows, LAMBDA item : FieldInt(item.hldg_qty) > 0),
                  mode |-> mode])
    /\ UNCHANGED <<session, config, time, lv, trace>>
    /\ UNCHANGED rlvars

\* lines 529-530
GetPortfolioSummaryExcept(t) ==
    /\ pc[t] = "gps529"
    /\ Return(t, [failed |-> <<rv[t].exc, rv[t].text>>])
    /\ UNCHANGED <<session, config, time, lv, trace>>
    /\ UNCHANGED rlvars

\* ---- check_positions (lines 540-606) --------------------------------
\* lines 573-576
ProfitRate(avg_price, current_price) ==
    IF avg_price > 0
    THEN FloatMulInt(FloatDiv(current_price - avg_price, avg_price), 100)
    ELSE FloatZero

\* lines 579-589: the action and the rule its reason cites
Decide(profit_rate, stop_loss_pct, take_profit_pct) ==
    IF FloatLeq(profit_rate, FloatOfInt(stop_loss_pct))
    THEN [action |-> "SELL", reason |-> "stop_loss"]
    ELSE IF FloatLeq(FloatOfInt(take_profit_pct), profit_rate)
         THEN [action |-> "SELL", reason |-> "take_profit"]
         ELSE [action |-> "HOLD", reason |-> "hold"]

\* lines 561-601: one entry per row with hldg_qty > 0, in the order of the rows
RECURSIVE Classify(_, _, _)
Classify(holdings, stop_loss_pct, take_profit_pct) ==
    IF holdings = <<>> THEN <<>>
    ELSE LET item == holdings[1]
             qty == FieldInt(item.hldg_qty)
             avg_price == FieldInt(item.pchs_avg_pric)
             current_price == FieldInt(item.prpr)
             d == TheOne({ Decide(profit_rate, stop_loss_pct, take_profit_pct) :
                           profit_rate \in {ProfitRate(avg_price, current_price)} })
             rest == Classify(Tail(holdings), stop_loss_pct, take_profit_pct)
         IN  IF qty <= 0 THEN rest
             ELSE <<[ticker |-> item.pdno, name |-> item.prdt_name, quantity |-> qty,
                     avg_price |-> avg_price, current_price |-> current_price,
                     action |-> d.action, reason |-> d.reason]>> \o rest

\* line 556, inside the try
CheckPositionsEnter(t) ==
    /\ pc[t] = "check_positions"
    /\ CallTo(t, "get_balance", "cp557", "cp605")
    /\ UNCHANGED <<session, config, time, lv, trace>>
    /\ UNCHANGED rlvars

\* lines 557-603
CheckPositionsResults(t) ==
    /\ pc[t] = "cp557"
    /\ Return(t, Classify(rv[t].rows, lv[t].stop_loss_pct, lv[t].take_profit_pct))
    /\ UNCHANGED <<session, config, time, lv, trace>>
    /\ UNCHANGED rlvars

\* lines 605-606: return [{"error": str(e)}]
CheckPositionsExcept(t) ==
    /\ pc[t] = "cp605"
    /\ Return(t, <<[error |-> <<rv[t].exc, rv[t].text>>]>>)
    /\ UNCHANGED <<session, config, time, lv, trace>>
    /\ UNCHANGED rlvars

\* p.get("action")
ActionOf(p) == IF "action" \in DOMAIN p THEN p.action ELSE None
\* every classified position, whatever its action
WithActionAll(positions, a) == SelectSeq(positions, LAMBDA p : ActionOf(p) # None)
\* [p for p in positions if p.get("action") == a]
WithAction(positions, a) == SelectSeq(positions, LAMBDA p : ActionOf(p) = a)

\* ---- execute_stop_loss_take_profit (lines 608-669) ------------------
\* line 625
EsltpEnter(t) ==
    /\ pc[t] = "execute_stop_loss_take_profit"
    /\ CallTo(t, "check_positions", "es627", NoFrame)
    /\ UNCHANGED <<session, config, time, lv, trace>>
    /\ UNCHANGED rlvars

\* lines 637-647
EsltpResults(t, positions, executed_orders, message) ==
    [status |-> None, message |-> message, dry_run |-> lv[t].dry_run,
     total_positions |-> Len(positions),
     sell_targets |-> Len(WithAction(positions, "SELL")),
     hold_targets |-> Len(WithAction(positions, "HOLD")),
     positions |-> positions, executed_orders |-> executed_orders]

\* lines 627-651
EsltpCheck(t) ==
    /\ pc[t] = "es627"
    /\ LET positions == rv[t] IN
       IF positions = <<>> \/ "error" \in DOMAIN positions[1]
       THEN /\ Return(t, [status |-> "error", message |-> "position_fetch_failed",
                          positions |-> positions])
            /\ UNCHANGED lv
       ELSE IF lv[t].dry_run
            THEN /\ Return(t, EsltpResults(t, positions, <<>>, "simulation"))
                 /\ lv' = [lv EXCEPT ![t].positions = positions,
                                     ![t].sell_targets = WithAction(positions, "SELL")]
            ELSE /\ Goto(t, "es654")
                 /\ lv' = [lv EXCEPT ![t].positions = positions,
                                     ![t].sell_targets = WithAction(positions, "SELL"),
                                     ![t].idx = 1, ![t].executed_orders = <<>>]
    /\ UNCHANGED <<session, config, time, trace>>
    /\ UNCHANGED rlvars

\* lines 654-658 and 668-669: the next target is sold at market, outside any try
EsltpNext(t) ==
    /\ pc[t] = "es654"
    /\ IF lv[t].idx <= Len(lv[t].sell_targets)
       THEN LET target == lv[t].sell_targets[lv[t].idx] IN
            /\ lv' = [lv EXCEPT ![t].po_ticker = target.ticker, ![t].po_type = "sell",
                                ![t].po_quantity = target.quantity, ![t].po_price = 0]
            /\ CallTo(t, "place_order", "es660", NoFrame)
       ELSE /\ Return(t, EsltpResults(t, lv[t].positions, lv[t].executed_orders, "executed"))
            /\ UNCHANGED lv
    /\ UNCHANGED <<session, config, time, trace>>
    /\ UNCHANGED rlvars

\* lines 660-666
EsltpAppend(t) ==
    /\ pc[t] = "es660"
    /\ LET target == lv[t].sell_targets[lv[t].idx] IN
       lv' = [lv EXCEPT ![t].executed_orders =
                            Append(@, [ticker |-> target.ticker, name |-> target.name,
                                       quantity |-> target.quantity, reason |-> target.reason,
                                       order_result |-> rv[t]]),
                        ![t].idx = @ + 1]
    /\ Goto(t, "es654")
    /\ UNCHANGED <<session, config, time, trace>>
    /\ UNCHANGED rlvars

\* ---- monitor_positions (lines 671-743) --------------------------------
\* The events recorded are those of the iteration under way.

\* the try of lines 705-737 encloses the callback and the orders
MonitorUnguarded == NoFrame
MonitorHandler == "mon736"

\* lines 702 and 740: max_iterations == 0 or iteration < max_iterations
LoopGoesOnInclusive(max_iterations, iteration) ==
    max_iterations = 0 \/ iteration <= max_iterations
LoopGoesOn(max_iterations, iteration) ==
    max_iterations = 0 \/ iteration < max_iterations

\* lines 702-706: the loop test, the count, and the position check
MonitorLoop(t) ==
    /\ pc[t] = "monitor_positions"
    /\ IF LoopGoesOn(lv[t].max_iterations, lv[t].iteration)
       THEN /\ lv[t].iteration <= MaxIterations
            /\ lv' = [lv EXCEPT ![t].iteration = @ + 1, ![t].positions = <<>>,
                                ![t].sell_targets = <<>>, ![t].idx = 0]
            /\ CallTo(t, "check_positions", "mon708", MonitorHandler)
            /\ trace' = [trace EXCEPT ![t] = <<>>]
       ELSE /\ Return(t, None)
            /\ UNCHANGED <<lv, trace>>
    /\ UNCHANGED <<session, config, time>>
    /\ UNCHANGED rlvars

\* p.get(key, default)
Get(p, key, default) == IF key \in DOMAIN p THEN p[key] ELSE default

\* lines 712-717: the status line, then one line per entry of positions
StatusLines(iteration, positions, sell_targets) ==
    <<Event("print", "check", [iteration |-> iteration, positions |-> Len(positions),
                               sell |-> Len(sell_targets)])>> \o
    [i \in DOMAIN positions |->
        Event("print", "position",
              [sell |-> ActionOf(positions[i]) = "SELL",
               name |-> Get(positions[i], "name", "N/A"),
               ticker |-> Get(positions[i], "ticker", None),
               reason |-> Get(positions[i], "reason", "")])]

\* lines 708-724
MonitorTargets(t) ==
    /\ pc[t] = "mon708"
    /\ LET positions == rv[t]
           sell_targets == WithAction(positions, "SELL")
       IN  /\ lv' = [lv EXCEPT ![t].positions = positions,
                               ![t].sell_targets = sell_targets, ![t].idx = 1]
           /\ trace' = [trace EXCEPT ![t] =
                            @ \o StatusLines(lv[t].iteration, positions, sell_targets)]
           /\ IF sell_targets # <<>>
              THEN IF lv[t].callback # None
                   THEN CallTo(t, "callback", "mon724", MonitorHandler)
                   ELSE Goto(t, "mon724")
              ELSE Goto(t, "mon740")
    /\ UNCHANGED <<session, config, time>>
    /\ UNCHANGED rlvars

\* line 722: callback(sell_targets) returns, or raises
Callback(t) ==
    /\ pc[t] = "callback"
    /\ Log(t, Event("callback", "-", lv[t].sell_targets))
    /\ IF lv[t].callback = "raises"
       THEN /\ Raise(t, Exc("callback_error", "observer"))
            /\ lv' = [lv EXCEPT ![t].callback_raised = @ + 1]
       ELSE /\ Return(t, None)
            /\ UNCHANGED lv
    /\ UNCHANGED <<session, config, time>>
    /\ UNCHANGED rlvars

\* lines 724-732: with auto_execute, the next target is sold at market
MonitorSell(t) ==
    /\ pc[t] = "mon724"
    /\ IF lv[t].auto_execute /\ lv[t].idx <= Len(lv[t].sell_targets)
       THEN LET target == lv[t].sell_targets[lv[t].idx] IN
            /\ lv' = [lv EXCEPT ![t].po_ticker = target.ticker, ![t].po_type = "sell",
                                ![t].po_quantity = target.quantity, ![t].po_price = 0]
            /\ CallTo(t, "place_order", "mon733", MonitorHandler)
       ELSE /\ Goto(t, "mon740")
            /\ UNCHANGED lv
    /\ UNCHANGED <<session, config, time, trace>>
    /\ UNCHANGED rlvars

\* lines 733-734
MonitorSold(t) ==
    /\ pc[t] = "mon733"
    /\ Log(t, Event("print", "order",
                    [name |-> lv[t].sell_targets[lv[t].idx].name, status |-> rv[t].status]))
    /\ lv' = [lv EXCEPT ![t].idx = @ + 1]
    /\ Goto(t, "mon724")
    /\ UNCHANGED <<session, config, time>>
    /\ UNCHANGED rlvars

\* lines 736-737
MonitorExcept(t) ==
    /\ pc[t] = "mon736"
    /\ Log(t, Event("print", "error", rv[t]))
    /\ Goto(t, "mon740")
    /\ UNCHANGED <<session, config, time, lv>>
    /\ UNCHANGED rlvars

\* lines 740-741: sleep unless this was the last iteration
MonitorWait(t) ==
    /\ pc[t] = "mon740"
    /\ IF LoopGoesOn(lv[t].max_iterations, lv[t].iteration)
       THEN /\ Goto(t, "mon741")
            /\ lv' = [lv EXCEPT ![t].sleeps = @ + 1]
       ELSE /\ Goto(t, "monitor_positions")
            /\ UNCHANGED lv
    /\ UNCHANGED <<session, config, time, trace>>
    /\ UNCHANGED rlvars

\* time.sleep(interval_seconds) returns
MonitorWake(t) ==
    /\ pc[t] = "mon741"
    /\ Goto(t, "monitor_positions")
    /\ UNCHANGED <<session, config, time, lv, trace>>
    /\ UNCHANGED rlvars

\* ---- callers ----------------------------------------------------------
PublicFrame == <<[ret |-> "done", handler |-> NoFrame]>>

\* a caller invokes execute(ticker, decision, quantity, price)
StartExecute(t) ==
    /\ pc[t] = "idle"
    /\ \E ticker \in TickerInputs, decision \in DecisionInputs,
          quantity \in QuantityInputs, price \in PriceInputs :
          lv' = [lv EXCEPT ![t] = [LV0 EXCEPT !.ticker = ticker, !.decision = decision,
                                              !.quantity = quantity, !.price = price,
                                              !.op = "execute", !.decision_in = decision,
                                              !.quantity_in = quantity,
                                              !.entry = <<access_token, token_expires_at>>]]
    /\ pc' = [pc EXCEPT ![t] = "execute"]
    /\ stack' = [stack EXCEPT ![t] = PublicFrame]
    /\ trace' = [trace EXCEPT ![t] = <<>>]
    /\ UNCHANGED <<session, config, time, rv>>
    /\ UNCHANGED rlvars

\* a caller invokes get_access_token()
StartGetAccessToken(t) ==
    /\ pc[t] = "idle"
    /\ lv' = [lv EXCEPT ![t] = [LV0 EXCEPT !.op = "get_access_token",
                                           !.entry = <<access_token, token_expires_at>>]]
    /\ pc' = [pc EXCEPT ![t] = "gat"]
    /\ stack' = [stack EXCEPT ![t] = PublicFrame]
    /\ trace' = [trace EXCEPT ![t] = <<>>]
    /\ UNCHANGED <<session, config, time, rv>>
    /\ UNCHANGED rlvars

StartOp(t, op, locals) ==
    /\ pc[t] = "idle"
    /\ lv' = [lv EXCEPT ![t] = [locals EXCEPT !.op = op,
                                              !.entry = <<access_token, token_expires_at>>]]
    /\ pc' = [pc EXCEPT ![t] = op]
    /\ stack' = [stack EXCEPT ![t] = PublicFrame]
    /\ trace' = [trace EXCEPT ![t] = <<>>]
    /\ UNCHANGED <<session, config, time, rv>>
    /\ UNCHANGED rlvars

\* a caller invokes check_positions(stop_loss_pct, take_profit_pct)
StartCheckPositions(t) ==
    \E th \in ThresholdInputs :
        StartOp(t, "check_positions",
                [LV0 EXCEPT !.stop_loss_pct = th[1], !.take_profit_pct = th[2]])

\* a caller invokes execute_stop_loss_take_profit(dry_run=...) with the
\* default thresholds
StartEsltp(t) ==
    \E dry_run \in BOOLEAN :
        StartOp(t, "execute_stop_loss_take_profit",
                [LV0 EXCEPT !.stop_loss_pct = DefaultThresholds[1],
                            !.take_profit_pct = DefaultThresholds[2],
                            !.dry_run = dry_run])

\* a caller invokes monitor_positions(max_iterations, auto_execute, callback)
\* with the default thresholds
CallbackInputs == {None, "returns", "raises"}
StartMonitor(t) ==
    \E n \in 0..MaxIterations, auto_execute \in BOOLEAN, callback \in CallbackInputs :
        StartOp(t, "monitor_positions",
                [LV0 EXCEPT !.stop_loss_pct = DefaultThresholds[1],
                            !.take_profit_pct = DefaultThresholds[2],
                            !.max_iterations = n, !.auto_execute = auto_execute,
                            !.callback = callback])

\* a caller invokes get_portfolio_summary()
StartGetPortfolioSummary(t) == StartOp(t, "get_portfolio_summary", LV0)

\* the caller takes the result (or the exception) of the finished operation
Finish(t) ==
    /\ pc[t] \in {"done", "raised"}
    /\ pc' = [pc EXCEPT ![t] = "idle"]
    /\ lv' = [lv EXCEPT ![t] = LV0]
    /\ rv' = [rv EXCEPT ![t] = None]
    /\ trace' = [trace EXCEPT ![t] = <<>>]
    /\ UNCHANGED <<session, config, time, stack>>
    /\ UNCHANGED rlvars

\* Wall-clock time passes, by an hour or by most of a token's life.  The
\* only statements that read datetime.now() are lines 208 and 224 of
\* get_access_token, so an advance is observable only between operations,
\* on entry to get_access_token and while its token request is under way.
ClockSteps == {1, TOKEN_LIFE_HOURS - RENEW_MARGIN_HOURS - 1}
ClockObserved(t) ==
    \/ pc[t] \in {"idle", "gat"}
    \/ pc[t] = "api_resp" /\ lv[t].ep = "token"
Tick ==
    /\ ticks < MaxTicks
    /\ \A t \in Threads : ClockObserved(t)
    /\ \E d \in ClockSteps : now' = now + d
    /\ ticks' = ticks + 1
    /\ UNCHANGED <<session, config, pc, stack, lv, rv, trace>>
    /\ UNCHANGED rlvars

Step(t) ==
    \/ GatCheck(t) \/ GatStore(t)
    \/ ApiWait(t) \/ ApiHttp(t) \/ ApiResp(t)
    \/ GetCurrentPriceEnter(t) \/ GetCurrentPriceSend(t) \/ GetCurrentPriceResult(t)
    \/ GetBalanceEnter(t) \/ GetBalanceSend(t) \/ GetBalanceResult(t)
    \/ GetBuyableEnter(t) \/ GetBuyableSend(t) \/ GetBuyableResult(t)
    \/ GetHashkeySend(t) \/ GetHashkeyResult(t)
    \/ PlaceOrderEnter(t) \/ PlaceOrderHash(t) \/ PlaceOrderSend(t) \/ PlaceOrderResult(t)
    \/ ExecuteEnter(t) \/ ExecutePrice(t) \/ ExecuteBranch(t)
    \/ ExecuteBuyQuantity(t) \/ ExecuteBuyOrder(t) \/ ExecuteBuyDone(t)
    \/ ExecuteSellQuantity(t) \/ ExecuteSellOrder(t) \/ ExecuteSellDone(t)
    \/ ExecuteExcept(t) \/ ExecuteUnknown(t)
    \/ Finish(t)

\* ============================================================ RateLimiter


\* while self.calls and self.calls[0] <= now - self.period: self.calls.popleft()
EvictAll(q, t, p) == <<>>
RECURSIVE Evict(_, _, _)
Evict(q, t, p) ==
    IF q # <<>> /\ q[1] <= t - p THEN Evict(Tail(q), t, p) ELSE q

\* sleep_time = self.calls[0] - (now - self.period) + 0.05
SleepTimeNoPeriod(q, t, p) == q[1] - t + GuardMargin
SleepTime(q, t, p) == q[1] - (t - p) + GuardMargin

RLInit ==
    /\ max_calls \in 1..MaxCallsBound
    /\ period \in 2..MaxPeriod
    /\ calls = <<>>
    /\ lock = {}
    /\ clock = 0
    /\ rpc = [t \in Threads |-> "idle"]
    /\ rnow = [t \in Threads |-> 0]
    /\ wake = [t \in Threads |-> 0]
    /\ recorded = <<>>
    /\ started = 0
    /\ mode = "paper"
    /\ base_url = BASE_URL_PAPER
    /\ ExIdle

\* a thread calls wait()
RLCall(t) ==
    /\ rpc[t] = "idle"
    /\ started < MaxWaitCalls
    /\ started' = started + 1
    /\ rpc' = [rpc EXCEPT ![t] = "l53"]
    /\ UNCHANGED <<max_calls, period, calls, lock, clock, rnow, wake, recorded>>
    /\ UNCHANGED exvars

\* `with self.lock:` on entry to wait(): blocks while another thread holds it
RLAcquire(t) ==
    /\ rpc[t] = "l53"
    /\ lock = {}
    /\ lock' = {t}
    /\ rpc' = [rpc EXCEPT ![t] = "l54"]
    /\ UNCHANGED <<max_calls, period, calls, clock, rnow, wake, recorded, started>>
    /\ UNCHANGED exvars

\* lines 54-58: now = time.time(); evict expired records
RLReadEvict(t) ==
    /\ rpc[t] = "l54"
    /\ rnow' = [rnow EXCEPT ![t] = clock]
    /\ calls' = Evict(calls, clock, period)
    /\ rpc' = [rpc EXCEPT ![t] = "l61"]
    /\ UNCHANGED <<max_calls, period, lock, clock, wake, recorded, started>>
    /\ UNCHANGED exvars

\* lines 61-64: at the limit, sleep until the oldest record leaves the window
RLCheck(t) ==
    /\ rpc[t] = "l61"
    /\ IF Len(calls) >= max_calls
       THEN IF SleepTime(calls, rnow[t], period) > 0
            THEN /\ wake' = [wake EXCEPT ![t] = clock + SleepTime(calls, rnow[t], period)]
                 /\ rpc' = [rpc EXCEPT ![t] = "sleep"]
            ELSE /\ rpc' = [rpc EXCEPT ![t] = "l66"]
                 /\ UNCHANGED wake
       ELSE /\ rpc' = [rpc EXCEPT ![t] = "l71"]
            /\ UNCHANGED wake
    /\ UNCHANGED <<max_calls, period, calls, lock, clock, rnow, recorded, started>>
    /\ UNCHANGED exvars

\* time.sleep(sleep_time) returns no earlier than sleep_time after it began
RLWake(t) ==
    /\ rpc[t] = "sleep"
    /\ clock >= wake[t]
    /\ rpc' = [rpc EXCEPT ![t] = "l66"]
    /\ wake' = [wake EXCEPT ![t] = 0]
    /\ UNCHANGED <<max_calls, period, calls, lock, clock, rnow, recorded, started>>
    /\ UNCHANGED exvars

\* lines 66-68: now = time.time(); evict again
RLReEvict(t) ==
    /\ rpc[t] = "l66"
    /\ rnow' = [rnow EXCEPT ![t] = clock]
    /\ calls' = Evict(calls, clock, period)
    /\ rpc' = [rpc EXCEPT ![t] = "l71"]
    /\ UNCHANGED <<max_calls, period, lock, clock, wake, recorded, started>>
    /\ UNCHANGED exvars

\* the holders of the lock once thread t has left its `with self.lock:` block
ReleasedNever(t) == lock
Released(t) == lock \ {t}

\* line 71: self.calls.append(time.time()); leaving the with block frees the lock
RLAppend(t) ==
    /\ rpc[t] = "l71"
    /\ calls' = Append(calls, clock)
    /\ recorded' = Append(recorded, clock)
    /\ lock' = Released(t)
    /\ rnow' = [rnow EXCEPT ![t] = 0]
    /\ rpc' = [rpc EXCEPT ![t] = "idle"]
    /\ UNCHANGED <<max_calls, period, clock, wake, started>>
    /\ UNCHANGED exvars

\* get_status(): takes the lock, evicts expired records, reports, frees the lock
RLGetStatus(t) ==
    /\ rpc[t] = "idle"
    /\ lock = {}
    /\ calls' = Evict(calls, clock, period)
    /\ UNCHANGED <<max_calls, period, lock, clock, rpc, rnow, wake, recorded, started>>
    /\ UNCHANGED exvars

\* the passage of time
RLTick ==
    /\ clock < MaxTime
    /\ clock' = clock + 1
    /\ UNCHANGED <<max_calls, period, calls, lock, rpc, rnow, wake, recorded, started>>
    /\ UNCHANGED exvars

RLThread(t) ==
    \/ RLAcquire(t)
    \/ RLReadEvict(t)
    \/ RLCheck(t)
    \/ RLWake(t)
    \/ RLReEvict(t)
    \/ RLAppend(t)

RLStep ==
    \/ \E t \in Threads :
        \/ RLCall(t)
        \/ RLAcquire(t)
        \/ RLReadEvict(t)
        \/ RLCheck(t)
        \/ RLWake(t)
        \/ RLReEvict(t)
        \/ RLAppend(t)
        \/ RLGetStatus(t)
    \/ RLTick

RLNext == RLStep

\* the limiter as __init__ builds it (lines 120, 126); Spec and SpecTok record
\* its admissions as "admit" events and leave its timing to SpecRL
RLBuilt ==
    /\ max_calls = IF mode = "paper" THEN RATE_LIMIT_PAPER ELSE RATE_LIMIT_LIVE
    /\ period = PERIOD_TICKS
    /\ calls = <<>>
    /\ lock = {}
    /\ clock = 0
    /\ rpc = [t \in Threads |-> "idle"]
    /\ rnow = [t \in Threads |-> 0]
    /\ wake = [t \in Threads |-> 0]
    /\ recorded = <<>>
    /\ started = 0

\* ------------------------------------------------------- specifications
vars == <<exvars, rlvars>>

SpecRL == RLInit /\ [][RLNext]_vars

\* Time goes on while a thread sleeps.  Scheduling is fair: a thread that can
\* run again and again does run, so a thread blocked on the lock gets it at
\* some moment when it is free (threading.Lock itself promises no order).
RLSleepTick ==
    /\ \E t \in Threads : rpc[t] = "sleep" /\ clock < wake[t]
    /\ clock' = clock + 1
    /\ UNCHANGED <<max_calls, period, calls, lock, rpc, rnow, wake, recorded, started>>
    /\ UNCHANGED exvars

RLFairNext ==
    \/ RLStep
    \/ RLSleepTick

SpecRLFair ==
    /\ RLInit
    /\ [][RLFairNext]_vars
    /\ WF_vars(RLSleepTick)
    /\ \A t \in Threads : SF_vars(RLThread(t))

\* one caller at a time
Main == CHOOSE t \in Threads : \A u \in Threads : t <= u

Init == ExInit /\ RLBuilt

Next ==
    \/ StartExecute(Main)
    \/ StartGetAccessToken(Main)
    \/ Step(Main)
    \/ Tick

Spec == Init /\ [][Next]_vars

\* one caller of execute(), one call after another, within the hour: what
\* execute sends and in which order does not depend on the clock, and a call
\* finds the token cached, absent or stored empty by the calls before it
ExecNext ==
    \/ StartExecute(Main)
    \/ Step(Main)

SpecExec == Init /\ [][ExecNext]_vars

\* several threads inside get_access_token() at once
TokStep(t) ==
    \/ StartGetAccessToken(t)
    \/ GatCheck(t) \/ GatStore(t)
    \/ ApiWait(t) \/ ApiHttp(t) \/ ApiResp(t)
    \/ Finish(t)

TokNext ==
    \/ \E t \in Threads : TokStep(t)
    \/ Tick

SpecTok == Init /\ [][TokNext]_vars

\* These operations last seconds against a token life of hours: the hour
\* clock advances between two operations of the caller.
IdleTick == (\A t \in Threads : pc[t] = "idle") /\ Tick

\* one caller of check_positions, execute_stop_loss_take_profit and
\* get_portfolio_summary
PosStep(t) ==
    \/ GatCheck(t) \/ GatStore(t)
    \/ ApiWait(t) \/ ApiHttp(t) \/ ApiResp(t)
    \/ GetBalanceEnter(t) \/ GetBalanceSend(t) \/ GetBalanceResult(t)
    \/ GetHashkeySend(t) \/ GetHashkeyResult(t)
    \/ PlaceOrderEnter(t) \/ PlaceOrderHash(t) \/ PlaceOrderSend(t) \/ PlaceOrderResult(t)
    \/ GetPortfolioSummaryEnter(t) \/ GetPortfolioSummaryFormat(t)
    \/ GetPortfolioSummaryExcept(t)
    \/ CheckPositionsEnter(t) \/ CheckPositionsResults(t) \/ CheckPositionsExcept(t)
    \/ EsltpEnter(t) \/ EsltpCheck(t) \/ EsltpNext(t) \/ EsltpAppend(t)
    \/ Finish(t)

PosNext ==
    \/ StartCheckPositions(Main)
    \/ StartEsltp(Main)
    \/ StartGetPortfolioSummary(Main)
    \/ PosStep(Main)
    \/ IdleTick

SpecPos == Init /\ [][PosNext]_vars

\* one run of monitor_positions on a new executor
MonStep(t) ==
    \/ GatCheck(t) \/ GatStore(t)
    \/ ApiWait(t) \/ ApiHttp(t) \/ ApiResp(t)
    \/ GetBalanceEnter(t) \/ GetBalanceSend(t) \/ GetBalanceResult(t)
    \/ GetHashkeySend(t) \/ GetHashkeyResult(t)
    \/ PlaceOrderEnter(t) \/ PlaceOrderHash(t) \/ PlaceOrderSend(t) \/ PlaceOrderResult(t)
    \/ CheckPositionsEnter(t) \/ CheckPositionsResults(t) \/ CheckPositionsExcept(t)
    \/ MonitorLoop(t) \/ MonitorTargets(t) \/ Callback(t) \/ MonitorSell(t)
    \/ MonitorSold(t) \/ MonitorExcept(t) \/ MonitorWait(t) \/ MonitorWake(t)

\* interval_seconds is the caller's: a sleep lasts no time that get_access_token
\* can tell, or it outlasts the cached token
SleepTick ==
    /\ \E t \in Threads : pc[t] = "mon741"
    /\ ticks < MaxTicks
    /\ now' = now + TOKEN_LIFE_HOURS
    /\ ticks' = ticks + 1
    /\ UNCHANGED <<session, config, pc, stack, lv, rv, trace>>
    /\ UNCHANGED rlvars

MonInit == Init /\ mode = "paper"

MonNext ==
    \/ StartMonitor(Main)
    \/ MonStep(Main)
    \/ SleepTick

SpecMon == MonInit /\ [][MonNext]_vars

\* The thread goes on running: every request is answered or fails, and every
\* sleep ends.  The hour clock stands still here: the loop reads it only in
\* get_access_token, and every outcome of get_access_token (cached token, new
\* token, failed request) is reached in every iteration without it.
MonFairNext ==
    \/ StartMonitor(Main)
    \/ MonStep(Main)

SpecMonFair == MonInit /\ [][MonFairNext]_vars /\ WF_vars(MonStep(Main))

\* The caller of the blocking run, from another thread, asks it to stop.
\* monitor_positions takes no stop flag, event or token (lines 671-679) and
\* reads none (lines 702-741): the request changes nothing the loop looks at.
RequestCancel(t) ==
    /\ lv[t].op = "monitor_positions"
    /\ pc[t] \notin {"idle", "done", "raised"}
    /\ ~lv[t].cancel_requested
    /\ lv' = [lv EXCEPT ![t].cancel_requested = TRUE]
    /\ UNCHANGED <<session, config, time, pc, stack, rv, trace>>
    /\ UNCHANGED rlvars

CancelNext ==
    \/ MonNext
    \/ RequestCancel(Main)

SpecCancel == MonInit /\ [][CancelNext]_vars

\* ---------------------------------------------------------------- claims

\* C1: in every reachable state no window of duration period holds more than
\* max_calls recorded timestamps (the (k+1)-th timestamp is recorded at least
\* one period after the k-th most recent one), and the calls queue never holds
\* more than max_calls entries once a wait() has returned.
C1_WindowBound ==
    /\ \A i \in 1..Len(recorded) :
          i + max_calls <= Len(recorded) =>
              recorded[i + max_calls] - recorded[i] >= period
    /\ lock = {} => Len(calls) <= max_calls

\* a caller found the window full, slept, and recorded its timestamp
C1_Witness ==
    /\ Len(recorded) > max_calls
    /\ \E i \in 1..Len(recorded) :
          /\ i + max_calls <= Len(recorded)
          /\ recorded[i + max_calls] - recorded[i] = period + GuardMargin
    /\ lock = {}

\* ---- reading the events of an operation -------------------------------
Events(t, e, ep) == {i \in DOMAIN trace[t] : trace[t][i].e = e /\ trace[t][i].ep = ep}
Requests(t, ep) == Events(t, "req", ep)
Ended(t) == pc[t] \in {"done", "raised"}
InExecute(t, decisions, quantity) ==
    /\ lv[t].op = "execute"
    /\ lv[t].decision_in \in decisions
    /\ lv[t].quantity_in = quantity
\* the 200 answers received so far from an endpoint
OkAnswers(t, ep) == {i \in Events(t, "resp", ep) : trace[t][i].d.kind = "ok"}

HoldSpellings == { HOLD, <<"H", "o", "l", "d">>, <<"h", "o", "l", "d">> }
BuySpellings == { BUY, <<"b", "u", "y">> }
SellSpellings == { SELL }

\* C2: when the cached token is absent or inside the renewal margin and several
\* threads call get_access_token() concurrently, a single acquisition request
\* serves them all: no two threads are ever acquiring a token at the same time.
Acquiring(t) ==
    /\ pc[t] \in {"api_wait", "api_http", "api_resp", "gat220"}
    /\ lv[t].ep = "token"
C2_SingleAcquisition == Cardinality({t \in Threads : Acquiring(t)}) <= 1

TokenFailure(t) ==
    /\ pc[t] \in {"raised", "ex476"}
    /\ rv[t].exc = "token_fail"
LastOf(S) == CHOOSE i \in S : \A j \in S : j <= i
C4_FailedAcquisitionCachesNothing ==
    \A t \in Threads : TokenFailure(t) =>
        LET entered == trace[t][LastOf(Events(t, "gat", "-"))].d
            answer == trace[t][LastOf(Events(t, "resp", "token"))].d
        IN  /\ answer.kind = "http_error"
            /\ rv[t].text = answer.text
            /\ access_token = entered.tok
            /\ token_expires_at = entered.exp
            /\ ~CachedValid

\* the renewal of a token inside its margin failed: the old token is kept
C4_Witness ==
    \E t \in Threads :
        /\ TokenFailure(t)
        /\ Truthy(access_token)
        /\ token_expires_at # <<>>
        /\ now >= token_expires_at[1] - 1

\* C5: execute with HOLD in any letter case returns status HOLD having done
\* nothing: no rate-limiter admission, no token check, no request of any kind,
\* and the session is as it was on entry.
C5_HoldIsNoOp ==
    \A t \in Threads :
        (lv[t].op = "execute" /\ lv[t].decision_in \in HoldSpellings) =>
            /\ trace[t] = <<>>
            /\ <<access_token, token_expires_at>> = lv[t].entry
            /\ pc[t] \in {"execute", "done"}
            /\ pc[t] = "done" => rv[t].status = "HOLD"

\* a lower-case "hold" returned while a token was cached
C5_Witness ==
    \E t \in Threads :
        /\ pc[t] = "done"
        /\ lv[t].op = "execute"
        /\ lv[t].decision_in = <<"h", "o", "l", "d">>
        /\ rv[t].status = "HOLD"
        /\ Truthy(access_token)

\* C6: in execute(ticker, BUY, quantity=0), once the brokerage has reported a
\* buyable quantity b >= 1, place_order is called exactly once, for a buy of
\* min(b, 10) shares, and every order request sent carries that quantity: never
\* more than 10.
C6_AutoBuyClamped ==
    \A t \in Threads : \A i \in OkAnswers(t, "buyable") :
        LET b == FieldInt(trace[t][i].d.f)
            want == IF b <= 10 THEN b ELSE 10
            placed == Events(t, "place_order", "-")
        IN  (InExecute(t, BuySpellings, 0) /\ b >= 1) =>
               /\ \A j \in placed :
                     /\ trace[t][j].d.order_type = "buy"
                     /\ trace[t][j].d.quantity = want
               /\ \A j \in Requests(t, "order") :
                     /\ IntOf(trace[t][j].d.body.ORD_QTY) = want
                     /\ IntOf(trace[t][j].d.body.ORD_QTY) <= 10
               /\ Cardinality(placed) <= 1
               /\ pc[t] = "done" => Cardinality(placed) = 1

\* buyable 37: the order went out for 10 shares and was accepted
C6_Witness ==
    \E t \in Threads : \E i \in OkAnswers(t, "buyable") :
        /\ InExecute(t, BuySpellings, 0)
        /\ trace[t][i].d.f = <<3, 7>>
        /\ pc[t] = "done"
        /\ rv[t].status = "success"
        /\ rv[t].quantity = 10
        /\ \E j \in Requests(t, "order") : trace[t][j].d.body.ORD_QTY = <<1, 0>>

\* C7: in execute(ticker, BUY, quantity=0), when the brokerage reports a
\* buyable quantity of 0 the call returns the no-buyable-quantity failure and
\* sends neither a hashkey request nor an order request.
C7_NoBuyingPower ==
    \A t \in Threads : \A i \in OkAnswers(t, "buyable") :
        (InExecute(t, BuySpellings, 0) /\ FieldInt(trace[t][i].d.f) = 0) =>
            /\ Requests(t, "hashkey") = {}
            /\ Requests(t, "order") = {}
            /\ Events(t, "place_order", "-") = {}
            /\ pc[t] \in {"gba325", "ex439", "ex442", "done"}
            /\ pc[t] = "done" =>
                  /\ rv[t].status = "failed"
                  /\ rv[t].error = <<"no_buyable_quantity">>

\* the brokerage answered "0" and the call returned the failure
C7_Witness ==
    \E t \in Threads : \E i \in OkAnswers(t, "buyable") :
        /\ InExecute(t, BuySpellings, 0)
        /\ trace[t][i].d.f = <<0>>
        /\ pc[t] = "done"
        /\ rv[t].error = <<"no_buyable_quantity">>

\* the rows of a balance answer that list the ticker (zero-padded to 6 digits)
RowsOf(rows, ticker) ==
    {k \in DOMAIN rows : rows[k].pdno = Zfill(ticker, 6)}

\* C8: in execute(ticker, SELL, quantity=0), when the balance fetched by the
\* call lists the ticker with held quantity q >= 1, place_order is called
\* exactly once, for a sell of q shares, and no order request carries any other
\* quantity.
C8_SellsWholeHolding ==
    \A t \in Threads : \A i \in OkAnswers(t, "balance") :
        LET rows == trace[t][i].d.rows
            placed == Events(t, "place_order", "-")
        IN  \A k \in RowsOf(rows, lv[t].ticker) :
              LET q == FieldInt(rows[k].hldg_qty) IN
              (InExecute(t, SellSpellings, 0) /\ q >= 1) =>
                 /\ \A j \in placed :
                       /\ trace[t][j].d.order_type = "sell"
                       /\ trace[t][j].d.quantity = q
                 /\ \A j \in Requests(t, "order") :
                       IntOf(trace[t][j].d.body.ORD_QTY) = q
                 /\ Cardinality(Requests(t, "order")) <= 1
                 /\ Cardinality(placed) <= 1
                 /\ pc[t] = "done" => Cardinality(placed) = 1

\* the ticker was the second row, held 12: the sell of 12 was accepted
C8_Witness ==
    \E t \in Threads : \E i \in OkAnswers(t, "balance") :
        /\ InExecute(t, SellSpellings, 0)
        /\ Len(trace[t][i].d.rows) = 2
        /\ 2 \in RowsOf(trace[t][i].d.rows, lv[t].ticker)
        /\ pc[t] = "done"
        /\ rv[t].status = "success"
        /\ rv[t].quantity = 12
        /\ \E j \in Requests(t, "order") : trace[t][j].d.body.ORD_QTY = <<1, 2>>

\* C9: in execute(ticker, SELL, quantity=0), when the balance fetched by the
\* call has no row for the ticker, or a row with held quantity 0, the call
\* returns the no-sellable-quantity failure and sends no order request.
C9_NoHoldings ==
    \A t \in Threads : \A i \in OkAnswers(t, "balance") :
        LET rows == trace[t][i].d.rows IN
        ( /\ InExecute(t, SellSpellings, 0)
          /\ \A k \in RowsOf(rows, lv[t].ticker) : FieldInt(rows[k].hldg_qty) = 0 ) =>
            /\ Requests(t, "order") = {}
            /\ Requests(t, "hashkey") = {}
            /\ Events(t, "place_order", "-") = {}
            /\ pc[t] = "done" =>
                  /\ rv[t].status = "failed"
                  /\ rv[t].error = <<"no_sellable_quantity">>

\* the balance listed another ticker only and the call returned the failure
C9_Witness ==
    \E t \in Threads : \E i \in OkAnswers(t, "balance") :
        /\ InExecute(t, SellSpellings, 0)
        /\ trace[t][i].d.rows # <<>>
        /\ RowsOf(trace[t][i].d.rows, lv[t].ticker) = {}
        /\ pc[t] = "done"
        /\ rv[t].error = <<"no_sellable_quantity">>

\* C10: execute with a decision other than BUY, SELL or HOLD returns the
\* unknown-decision failure whatever the brokerage answers during the call,
\* and places no order.
C10_UnknownDecision ==
    \A t \in Threads :
        ( /\ pc[t] = "done"
          /\ lv[t].op = "execute"
          /\ lv[t].decision_in \notin HoldSpellings \cup BuySpellings \cup SellSpellings ) =>
            /\ rv[t].status = "failed"
            /\ rv[t].error[1] = "unknown_decision"
            /\ Requests(t, "order") = {}

\* C11: place_order reports success, with the order number the brokerage
\* gave, exactly when the order-cash answer is a 200 whose rt_cd is "0"; any
\* other rt_cd is reported as failed with the brokerage's msg_cd and msg1; and
\* one execute() call sends at most one order-cash request, whatever the answer.
PlaceOrderReturned(t) == pc[t] \in {"ex444", "ex466"}
C11_OrderOutcome ==
    \A t \in Threads :
        /\ lv[t].op = "execute" => Cardinality(Requests(t, "order")) <= 1
        /\ (lv[t].op = "execute" /\ PlaceOrderReturned(t)) =>
              LET answer == trace[t][LastOf(Events(t, "resp", "order"))].d IN
              /\ rv[t].status = "success" <=> (answer.kind = "ok" /\ answer.s = "0")
              /\ rv[t].status = "success" => rv[t].order_no = answer.out.ODNO
              /\ rv[t].status # "success" => rv[t].status = "failed"
              /\ (answer.kind = "ok" /\ answer.s # "0") =>
                    rv[t].error = <<"rejected", answer.out.msg_cd, answer.out.msg1>>
              /\ answer.kind = "http_error" => rv[t].error = <<"http_error", answer.text>>

\* the brokerage declined a sell (rt_cd "1") and execute returned the rejection
\* after a single order request
C11_Witness ==
    \E t \in Threads :
        /\ pc[t] = "done"
        /\ lv[t].op = "execute"
        /\ rv[t].status = "failed"
        /\ rv[t].error = <<"rejected", "APBK0919", "declined">>
        /\ Cardinality(Requests(t, "order")) = 1

\* the classification the rule gives in exact arithmetic: with
\* profitRate = (cur - avg) / avg * 100 (0 when avg is 0),
\* profitRate <= pct  iff  (cur - avg) * 100 <= pct * avg
RateAtMost(avg, cur, pct) == IF avg > 0 THEN (cur - avg) * 100 <= pct * avg ELSE 0 <= pct
RateAtLeast(avg, cur, pct) == IF avg > 0 THEN (cur - avg) * 100 >= pct * avg ELSE 0 >= pct
HeldItems(rows) == SelectSeq(rows, LAMBDA item : FieldInt(item.hldg_qty) > 0)
LastBalance(t) == trace[t][LastOf(OkAnswers(t, "balance"))].d.rows

\* C12: check_positions returns one entry per balance row with quantity > 0;
\* with profitRate = (currentPrice - avgPrice) / avgPrice * 100, or 0 when
\* avgPrice is 0, the entry's action is SELL exactly when
\* profitRate <= stopLossPct or profitRate >= takeProfitPct and HOLD otherwise,
\* and when profitRate <= stopLossPct the reason is the stop-loss one.
C12_Classification ==
    \A t \in Threads :
        (lv[t].op = "check_positions" /\ pc[t] = "done" /\ OkAnswers(t, "balance") # {}) =>
            LET held == HeldItems(LastBalance(t)) IN
            /\ Len(rv[t]) = Len(held)
            /\ \A k \in DOMAIN held :
                  LET avg == FieldInt(held[k].pchs_avg_pric)
                      cur == FieldInt(held[k].prpr)
                      low == RateAtMost(avg, cur, lv[t].stop_loss_pct)
                      high == RateAtLeast(avg, cur, lv[t].take_profit_pct)
                  IN  /\ rv[t][k].ticker = held[k].pdno
                      /\ rv[t][k].action = (IF low \/ high THEN "SELL" ELSE "HOLD")
                      /\ low => rv[t][k].reason = "stop_loss"

\* ---- reading the events of a monitor iteration -------------------------
InMonitor(t) == lv[t].op = "monitor_positions"
\* the iteration has called check_positions and holds its answer
Classified(t) == InMonitor(t) /\ lv[t].idx >= 1
\* the iteration is over: the loop is at its sleep test
IterationOver(t) == Classified(t) /\ pc[t] = "mon740"
\* the place_order calls of the iteration, in order
Placed(t) ==
    LET evs == SelectSeq(trace[t], LAMBDA ev : ev.e = "place_order") IN
    [i \in DOMAIN evs |-> evs[i].d]
\* the market sell of the whole quantity of a position
MarketSell(p) ==
    [ticker |-> p.ticker, order_type |-> "sell", quantity |-> p.quantity, price |-> 0]
SellClassified(t) == SelectSeq(lv[t].positions, LAMBDA p : ActionOf(p) = "SELL")

\* C13: with auto_execute false a monitor iteration calls place_order never
\* and sends no hashkey and no order request; with auto_execute true, when the
\* iteration is over, place_order has been called exactly once for each
\* SELL-classified position (a sell at price 0 of its whole quantity), in
\* order, and for no other position.
C13_AutoExecute ==
    \A t \in Threads : InMonitor(t) =>
        /\ ~lv[t].auto_execute =>
              /\ Placed(t) = <<>>
              /\ Requests(t, "hashkey") = {}
              /\ Requests(t, "order") = {}
        /\ (lv[t].auto_execute /\ IterationOver(t)) =>
              Placed(t) = [i \in DOMAIN SellClassified(t) |-> MarketSell(SellClassified(t)[i])]

\* C14: in a monitor iteration with auto_execute, once the sell orders have
\* begun, the order of every SELL-classified position has been attempted when
\* the iteration is over, whatever became of the earlier ones (rejection,
\* non-200 answer, network error, token failure).
C14_RemainingAttempted ==
    \A t \in Threads :
        (IterationOver(t) /\ lv[t].auto_execute /\ Placed(t) # <<>>) =>
            Len(Placed(t)) = Len(SellClassified(t))

\* the balance fetch of the iteration failed: check_positions answered with
\* its error entry
FetchFailed(t) ==
    /\ Classified(t)
    /\ lv[t].positions # <<>>
    /\ "error" \in DOMAIN lv[t].positions[1]
\* the lines printed in the iteration that carry the error
ErrorLines(t) ==
    {i \in DOMAIN trace[t] :
        /\ trace[t][i].e = "print"
        /\ \/ trace[t][i].ep = "error"
           \/ trace[t][i].ep = "position" /\ "error" \in DOMAIN trace[t][i].d}

\* C15: when the balance fetch of a monitor iteration fails, the iteration
\* places no order and calls no callback, a printed line reports the failure,
\* the iteration has been counted, and the loop goes on (it neither raises nor
\* returns before max_iterations).
C15_FetchFailure ==
    \A t \in Threads : FetchFailed(t) =>
        /\ Placed(t) = <<>>
        /\ Events(t, "callback", "-") = {}
        /\ Requests(t, "order") = {}
        /\ lv[t].iteration >= 1
        /\ pc[t] \in {"mon740", "mon741", "monitor_positions", "done"}
        /\ pc[t] = "done" => lv[t].iteration = lv[t].max_iterations
        /\ IterationOver(t) => ErrorLines(t) # {}

\* the counts of a monitor_positions run: it never raises; with
\* max_iterations = n > 0 it returns only after exactly n iterations and n - 1
\* sleeps, sleeping after every iteration but the last; with max_iterations = 0
\* it never returns and sleeps after every iteration
IterationCounts ==
    \A t \in Threads : InMonitor(t) =>
        LET n == lv[t].max_iterations
            it == lv[t].iteration
        IN  /\ pc[t] # "raised"
            /\ n > 0 => it <= n
            /\ pc[t] = "done" => (n > 0 /\ it = n /\ lv[t].sleeps = n - 1)
            /\ pc[t] = "mon741" => (lv[t].sleeps = it /\ (n = 0 \/ it < n))
            /\ pc[t] = "monitor_positions" =>
                  lv[t].sleeps = (IF n > 0 /\ it = n THEN n - 1 ELSE it)
            /\ pc[t] \notin {"done", "mon741", "monitor_positions"} => lv[t].sleeps = it - 1

\* C16: monitor_positions with max_iterations = n > 0 performs exactly n
\* iterations and n - 1 sleeps (none after the last iteration) and then returns,
\* whatever fails inside the iterations; with max_iterations = 0 it never
\* returns and sleeps after every iteration.
C16_Iterations ==
    /\ []IterationCounts
    /\ \A t \in Threads :
          (InMonitor(t) /\ lv[t].max_iterations > 0) ~> (pc[t] = "done")

\* a run of two iterations returned, although the balance fetch failed in the
\* second one
C16_Witness ==
    \E t \in Threads :
        /\ InMonitor(t)
        /\ pc[t] = "done"
        /\ lv[t].max_iterations = 2
        /\ lv[t].iteration = 2
        /\ lv[t].sleeps = 1
        /\ lv[t].positions # <<>>
        /\ "error" \in DOMAIN lv[t].positions[1]

\* C17: in a monitor iteration the callback is called at most once, only when
\* a position is SELL-classified, and with the list of all the SELL-classified
\* positions of the iteration and no other.
C17_CallbackArgument ==
    \A t \in Threads : InMonitor(t) =>
        LET called == Events(t, "callback", "-") IN
        /\ Cardinality(called) <= 1
        /\ \A i \in called :
              /\ Classified(t)
              /\ trace[t][i].d # <<>>
              /\ trace[t][i].d = SellClassified(t)
              /\ \A k \in DOMAIN trace[t][i].d : ActionOf(trace[t][i].d[k]) = "SELL"
        /\ (Classified(t) /\ SellClassified(t) = <<>>) => called = {}
        /\ (IterationOver(t) /\ SellClassified(t) # <<>> /\ lv[t].callback # None) =>
              Cardinality(called) = 1

\* the callback received the two SELL positions of three held ones
C17_Witness ==
    \E t \in Threads : \E i \in Events(t, "callback", "-") :
        /\ IterationOver(t)
        /\ Len(lv[t].positions) = 3
        /\ Len(trace[t][i].d) = 2

\* C18: an exception raised by the callback does not end the monitor loop:
\* the run never raises, the iteration goes to the loop's sleep test, and the
\* run returns only after max_iterations iterations.
C18_CallbackFailure ==
    \A t \in Threads : (InMonitor(t) /\ lv[t].callback_raised > 0) =>
        /\ pc[t] # "raised"
        /\ pc[t] = "done" => lv[t].iteration = lv[t].max_iterations

\* the callback raised in both iterations of a run that returned
C18_Witness ==
    \E t \in Threads :
        /\ InMonitor(t)
        /\ lv[t].callback_raised = 2
        /\ lv[t].max_iterations = 2
        /\ pc[t] = "done"

\* C19: once the caller has asked a running monitor_positions to stop, the run
\* starts no further iteration.
C19_Cancellation ==
    [][\A t \in Threads :
          (InMonitor(t) /\ lv[t].cancel_requested) => lv'[t].iteration <= lv[t].iteration]_vars

\* C20: no public operation lets an exception reach its caller, whatever the
\* brokerage answers (non-200 status, network error, failed token request).
C20_NoException ==
    \A t \in Threads :
        lv[t].op \in {"execute", "check_positions", "execute_stop_loss_take_profit",
                      "monitor_positions", "get_portfolio_summary"} => pc[t] # "raised"


\* the calls of wait() under way
InWait == {t \in Threads : rpc[t] # "idle"}

CeilDiv(a, b) == -((-a) \div b)

\* C22: between the first and the last of any N consecutive recorded
\* timestamps at least ceil(N / max_calls - 1) * period has passed.
C22_Throughput ==
    \A i \in DOMAIN recorded : \A j \in DOMAIN recorded :
        i <= j => recorded[j] - recorded[i] >= CeilDiv(j - i + 1 - max_calls, max_calls) * period

\* three calls with max_calls = 1: the last is two periods after the first
C22_Witness ==
    /\ max_calls = 1
    /\ period = MaxPeriod
    /\ Len(recorded) = 3
    /\ recorded[3] - recorded[1] >= 2 * period

\* C23: no thread holds the limiter's lock while it is suspended in
\* time.sleep(), so that a caller waiting for a free slot does not block the
\* wait() and get_status() calls of the other threads.
C23_NoLockWhileSuspended ==
    \A t \in Threads : rpc[t] = "sleep" => t \notin lock


\* the last place_order entered before event i of thread t
PlacedBefore(t, i) == LastOf({j \in Events(t, "place_order", "-") : j < i})

\* C24: every HTTP request of an operation follows an admission by the
\* limiter of its own (one admission, one request, same endpoint), and within
\* one place_order the token check (with the token request, if one is made)
\* comes first, then the hashkey request and its answer, then the order
\* request.
C24_AdmittedAndOrdered ==
    \A t \in Threads :
        /\ \A i \in DOMAIN trace[t] :
              /\ trace[t][i].e = "req" =>
                    /\ i > 1
                    /\ trace[t][i - 1].e = "admit"
                    /\ trace[t][i - 1].ep = trace[t][i].ep
              /\ trace[t][i].e = "admit" =>
                    IF i = Len(trace[t])
                    THEN pc[t] = "api_http" /\ lv[t].ep = trace[t][i].ep
                    ELSE trace[t][i + 1].e = "req" /\ trace[t][i + 1].ep = trace[t][i].ep
        /\ \A i \in Requests(t, "order") :
              LET p == PlacedBefore(t, i)
                  within == {k \in p + 1..i - 1 : trace[t][k].e \in {"gat", "gat_ret", "req", "resp"}}
                  At(e, ep) == {k \in within : trace[t][k].e = e /\ trace[t][k].ep = ep}
              IN  \E g \in At("gat", "-"), r \in At("gat_ret", "-"),
                     h \in At("req", "hashkey"), a \in At("resp", "hashkey") :
                      /\ g < r /\ r < h /\ h < a
                      /\ \A k \in At("req", "token") : g < k /\ k < r
                      /\ At("req", "hashkey") = {h}
                      /\ At("gat", "-") = {g}

\* an execute() that requested a price, a buyable amount, a token, a hash and
\* an order, and received the answer to the order
C24_Witness ==
    \E t \in Threads :
        /\ Requests(t, "price") # {}
        /\ Requests(t, "buyable") # {}
        /\ Requests(t, "hashkey") # {}
        /\ \E k \in Requests(t, "token"), j \in Events(t, "place_order", "-") : j < k
        /\ Events(t, "resp", "order") # {}

\* C25: every order request carries the hash that the hashkey endpoint
\* returned for the same body; none is sent without a hash.
C25_OrderCarriesHash ==
    \A t \in Threads : \A i \in Requests(t, "order") :
        LET a == LastOf({j \in Events(t, "resp", "hashkey") : j < i})
            h == LastOf({j \in Requests(t, "hashkey") : j < i})
        IN  /\ trace[t][i].d.hashkey # "-"
            /\ trace[t][a].d.kind = "ok"
            /\ trace[t][i].d.hashkey = trace[t][a].d.s
            /\ trace[t][i].d.body = trace[t][h].d.body

ModeUrl(m) == IF m = "paper" THEN BASE_URL_PAPER ELSE BASE_URL_LIVE
ModeRate(m) == IF m = "paper" THEN RATE_LIMIT_PAPER ELSE RATE_LIMIT_LIVE
\* the transaction ids of the balance, buyable-amount and order calls
ModeTrIds(m) ==
    IF m = "paper"
    THEN {"VTTC8434R", "VTTC8908R", "VTTC0802U", "VTTC0801U"}
    ELSE {"TTTC8434R", "TTTC8908R", "TTTC0802U", "TTTC0801U"}
ModeAgrees ==
    /\ base_url = ModeUrl(mode)
    /\ max_calls = ModeRate(mode)
    /\ \A t \in Threads : \A i \in DOMAIN trace[t] :
          trace[t][i].e = "req" =>
              /\ trace[t][i].d.url = ModeUrl(mode)
              /\ trace[t][i].ep \in {"balance", "buyable", "order"} =>
                    trace[t][i].d.tr_id \in ModeTrIds(mode)

\* C26: the base URL and the rate ceiling are those of the mode and never
\* change, and every request goes to the endpoint of the mode with a
\* transaction id of the mode (V... on paper, T... live).
C26_ModeConsistent ==
    /\ []ModeAgrees
    /\ [][mode' = mode /\ base_url' = base_url /\ max_calls' = max_calls]_vars

\* a live executor has sent a balance request and an order request
C26_Witness ==
    /\ mode = "live"
    /\ \E t \in Threads : Requests(t, "balance") # {} /\ Requests(t, "order") # {}

\* C27: get_access_token returns a non-empty token whenever it returns, the
\* expiry is set only together with a non-empty token, and no authenticated
\* request is sent without a bearer token.
C27_TokenNeverAbsent ==
    /\ token_expires_at # <<>> => Truthy(access_token)
    /\ \A t \in Threads :
          /\ \A i \in Events(t, "gat_ret", "-") : Truthy(trace[t][i].d.tok)
          /\ \A i \in DOMAIN trace[t] :
                (trace[t][i].e = "req" /\ trace[t][i].ep \notin {"token", "hashkey"}) =>
                    Truthy(trace[t][i].d.auth)


\* ---- the result of execute_stop_loss_take_profit -----------------------
InEsltp(t) == lv[t].op = "execute_stop_loss_take_profit"
\* the brokerage answered the balance request of the operation with a 200
BalanceFetched(t) ==
    \E i \in DOMAIN trace[t] :
        /\ trace[t][i].e = "resp"
        /\ trace[t][i].ep = "balance"
        /\ trace[t][i].d.kind = "ok"

\* C28: execute_stop_loss_take_profit returns the error status if and only if
\* the balance fetch failed; after a successful fetch (one that reports no
\* held position included) the result is a normal one whose total_positions
\* is sell_targets + hold_targets, and with dry_run no order is placed and
\* executed_orders is empty.
C28_StopLossResult ==
    \A t \in Threads : InEsltp(t) =>
        /\ lv[t].dry_run => (Placed(t) = <<>> /\ Requests(t, "order") = {})
        /\ pc[t] = "done" =>
              /\ (rv[t].status = "error") <=> ~BalanceFetched(t)
              /\ BalanceFetched(t) =>
                    /\ rv[t].total_positions = rv[t].sell_targets + rv[t].hold_targets
                    /\ lv[t].dry_run => rv[t].executed_orders = <<>>

\* C29: in a monitor iteration with a SELL-classified position the callback
\* is called before any order of the iteration is placed, and with
\* auto_execute the orders placed do not depend on what became of the
\* callback: once it has been called, the order of the first SELL-classified
\* position has been attempted when the iteration is over, whether the
\* callback returned or raised.
C29_CallbackThenOrders ==
    \A t \in Threads : InMonitor(t) =>
        /\ lv[t].callback # None =>
              \A j \in Events(t, "place_order", "-") :
                  \E i \in Events(t, "callback", "-") : i < j
        /\ (IterationOver(t) /\ lv[t].auto_execute /\ Events(t, "callback", "-") # {}) =>
              /\ Placed(t) # <<>>
              /\ Placed(t)[1] = MarketSell(SellClassified(t)[1])


\* C30: execute(ticker, BUY or SELL, quantity=q) with an explicit q > 0 asks
\* neither the buyable amount nor the balance and calls place_order for
\* exactly q shares, above 10 included (once, when the price was fetched);
\* and every order that execute places, whatever the quantity given, is for
\* at least 1 share.
C30_ExplicitQuantity ==
    \A t \in Threads : lv[t].op = "execute" =>
        LET q == lv[t].quantity_in
            placed == Events(t, "place_order", "-")
        IN  /\ \A j \in placed : trace[t][j].d.quantity >= 1
            /\ \A j \in Requests(t, "order") : IntOf(trace[t][j].d.body.ORD_QTY) >= 1
            /\ q > 0 =>
                  /\ Requests(t, "buyable") = {}
                  /\ Requests(t, "balance") = {}
                  /\ \A j \in placed : trace[t][j].d.quantity = q
                  /\ \A j \in Requests(t, "order") : IntOf(trace[t][j].d.body.ORD_QTY) = q
                  /\ Cardinality(placed) <= 1
                  /\ (pc[t] = "done" /\ OkAnswers(t, "price") # {}
                        /\ lv[t].decision_in \in BuySpellings \cup SellSpellings) =>
                        Cardinality(placed) = 1
            /\ q < 0 => placed = {}

\* a buy of 12 shares went out as given and was accepted
C30_Witness ==
    \E t \in Threads : \E j \in Requests(t, "order") :
        /\ InExecute(t, BuySpellings, 12)
        /\ pc[t] = "done"
        /\ rv[t].status = "success"
        /\ trace[t][j].d.body.ORD_QTY = <<1, 2>>


=============================================================================
